---- MODULE Spec2Model ----
(***************************************************************************)
(* Ride dispatch core of backend/main.py: the driver table, the spatial    *)
(* index driver_locations, the rider table, the active ride requests and   *)
(* the tick counter, with one action per HTTP handler.  Every handler runs *)
(* to completion before the next one starts (single-threaded server        *)
(* state), so an action is one whole call, its exception path included.    *)
(***************************************************************************)
EXTENDS Integers, Sequences, FiniteSets, TLC

\* ---------------------------------------------------------------- bounds
\* The grid of the source is 0..99 on both axes; the model keeps the same
\* code on a grid 0..GridMax.
GridMax == 1
\* Number of handler calls explored from the empty store: with every input
\* (MaxCalls), and with the locations restricted to two cells (DeepCalls).
MaxCalls == 5
DeepCalls == 6
\* Number of calls explored when the driver ids include the empty string.
AnyIdCalls == 5
\* Number of calls explored when every call names one cell and registrations
\* are of new ids only.
TripCalls == 10

DriverIds == {"d1", "d2"}
RiderIds == {"r1", "r2"}
\* Python's None for an Optional field.
None == "None"

VARIABLES drivers, driver_locations, riders, ride_requests, current_tick,
          result, calls

vars == <<drivers, driver_locations, riders, ride_requests, current_tick,
          result, calls>>

\* ---------------------------------------------------------------- helpers
\* A validation that forgets the upper edge of the grid.
InBoundsLowerOnly(x, y) == 0 <= x /\ 0 <= y

\* A validation that looks at x only.
InBoundsXOnly(x, y) == 0 <= x /\ x <= GridMax

\* The coordinate validation of add_driver, add_rider and add_ride.
InBounds(x, y) == 0 <= x /\ x <= GridMax /\ 0 <= y /\ y <= GridMax

\* The bounds check of the two breadth-first searches on a neighbour cell.
InGrid(new_x, new_y) ==
  0 <= new_x /\ new_x <= GridMax /\ 0 <= new_y /\ new_y <= GridMax

\* Truth value of a str (or None) in a Python condition.
Truthy(id) == id # None /\ id # ""

\* list.remove(id): drops the first occurrence (the caller checks presence).
RECURSIVE ListRemove(_, _)
ListRemove(s, id) ==
  IF s = <<>> THEN <<>>
  ELSE IF Head(s) = id THEN Tail(s)
  ELSE <<Head(s)>> \o ListRemove(Tail(s), id)

InList(s, id) == \E i \in 1..Len(s) : s[i] = id

\* driver_locations[loc].append(id), creating the bucket when absent.
IndexAppend(idx, loc, id) ==
  [c \in DOMAIN idx \cup {loc} |->
     IF c = loc
       THEN (IF loc \in DOMAIN idx THEN idx[loc] ELSE <<>>) \o <<id>>
       ELSE idx[c]]

\* driver_locations[loc].remove(id), then del of the bucket when it is empty.
IndexRemove(idx, loc, id) ==
  LET left == ListRemove(idx[loc], id)
  IN  IF left = <<>>
        THEN [c \in DOMAIN idx \ {loc} |-> idx[c]]
        ELSE [idx EXCEPT ![loc] = left]

\* dict item assignment d[k] = v and del d[k] on a table keyed by id.
DictSet(d, k, v) == [i \in DOMAIN d \cup {k} |-> IF i = k THEN v ELSE d[i]]
DictDel(d, k) == [i \in DOMAIN d \ {k} |-> d[i]]

\* Responses of the handlers: the returned dict (status, driver_selected) or
\* the HTTPException raised, with the kind of its message in detail.
Success == [status |-> "success", driver_selected |-> None, detail |-> "ok"]
Offer(d) == [status |-> "success", driver_selected |-> d, detail |-> "ok"]
ErrorReturn(detail) ==
  [status |-> "error", driver_selected |-> None, detail |-> detail]
HttpError(detail) ==
  [status |-> "http_error", driver_selected |-> None, detail |-> detail]

\* ---------------------------------------------------------------- state
\* The module-level storage as one value, and the outcome of a handler call:
\* the storage it leaves and its response.
Store ==
  [drivers |-> drivers, driver_locations |-> driver_locations,
   riders |-> riders, ride_requests |-> ride_requests,
   current_tick |-> current_tick]

Outcome(s, res) == [store |-> s, result |-> res]

Init ==
  /\ drivers = <<>>
  /\ driver_locations = <<>>
  /\ riders = <<>>
  /\ ride_requests = <<>>
  /\ current_tick = 0
  /\ result = [status |-> "none", driver_selected |-> None, detail |-> "none"]
  /\ calls = 0

\* ---------------------------------------------------------------- add_driver
add_driver(s, id, x, y) ==
  IF ~InBounds(x, y) THEN Outcome(s, HttpError("bad_coordinates"))
  ELSE Outcome(
         [s EXCEPT
            !.drivers =
              IF id \in DOMAIN s.drivers
                THEN [s.drivers EXCEPT ![id].location = <<x, y>>]
                ELSE DictSet(s.drivers, id,
                             [location |-> <<x, y>>, status |-> "available"]),
            !.driver_locations = IndexAppend(s.driver_locations, <<x, y>>, id)],
         Success)

\* ---------------------------------------------------------------- add_rider
add_rider(s, id, x, y) ==
  IF ~InBounds(x, y) THEN Outcome(s, HttpError("bad_coordinates"))
  ELSE Outcome(
         [s EXCEPT !.riders = DictSet(s.riders, id,
                                      [pickup_location |-> <<x, y>>,
                                       dropoff_location |-> <<x, y>>])],
         Success)

\* ---------------------------------------------------------------- delete_driver
delete_driver(s, id) ==
  IF id \notin DOMAIN s.drivers THEN Outcome(s, ErrorReturn("driver_not_found"))
  ELSE LET loc == s.drivers[id].location
           idx == s.driver_locations
       IN  IF loc \in DOMAIN idx /\ ~InList(idx[loc], id)
             THEN \* list.remove raises ValueError before any mutation
                  Outcome(s, HttpError("ValueError"))
             ELSE Outcome(
                    [s EXCEPT
                       !.driver_locations =
                         IF loc \in DOMAIN idx THEN IndexRemove(idx, loc, id)
                         ELSE idx,
                       !.drivers = DictDel(s.drivers, id)],
                    Success)

\* ---------------------------------------------------------------- delete_rider
delete_rider(s, id) ==
  IF id \notin DOMAIN s.riders THEN Outcome(s, ErrorReturn("rider_not_found"))
  ELSE Outcome([s EXCEPT !.riders = DictDel(s.riders, id)], Success)

\* ---------------------------------------------------------------- search
\* In-bounds, unvisited neighbours of (x, y) in the order of dirs
\* [(1,0), (-1,0), (0,1), (0,-1)]; each one is marked visited as it is queued.
RECURSIVE Explore(_, _, _, _)
Explore(cell, dirs, visited, acc) ==
  IF dirs = <<>> THEN [visited |-> visited, queued |-> acc]
  ELSE LET n == <<cell[1] + Head(dirs)[1], cell[2] + Head(dirs)[2]>>
       IN  IF InGrid(n[1], n[2]) /\ n \notin visited
             THEN Explore(cell, Tail(dirs), visited \cup {n}, acc \o <<n>>)
             ELSE Explore(cell, Tail(dirs), visited, acc)

Dirs == << <<1, 0>>, <<0 - 1, 0>>, <<0, 1>>, <<0, 0 - 1>> >>

\* A scan that forgets the rejected set: the first available driver.
RECURSIVE ScanBucketAnyAvailable(_, _, _)
ScanBucketAnyAvailable(bucket, drv, rejected) ==
  IF bucket = <<>> THEN [kind |-> "none", driver |-> None]
  ELSE IF Head(bucket) \notin DOMAIN drv
         THEN [kind |-> "KeyError", driver |-> None]
  ELSE IF drv[Head(bucket)].status = "available"
         THEN [kind |-> "found", driver |-> Head(bucket)]
  ELSE ScanBucketAnyAvailable(Tail(bucket), drv, rejected)

\* The scan of one bucket in find_next_available_driver: the first driver that
\* is available and not rejected; drivers[driver_id] of an id that has no
\* driver record raises KeyError.
RECURSIVE ScanBucket(_, _, _)
ScanBucket(bucket, drv, rejected) ==
  IF bucket = <<>> THEN [kind |-> "none", driver |-> None]
  ELSE IF Head(bucket) \notin DOMAIN drv
         THEN [kind |-> "KeyError", driver |-> None]
  ELSE IF drv[Head(bucket)].status = "available" /\ Head(bucket) \notin rejected
         THEN [kind |-> "found", driver |-> Head(bucket)]
  ELSE ScanBucket(Tail(bucket), drv, rejected)

\* The while loop of find_next_available_driver over the FIFO queue of
\* (cell, distance) entries.
RECURSIVE FindLoop(_, _, _, _, _)
FindLoop(queue, visited, idx, drv, rejected) ==
  IF queue = <<>> THEN [kind |-> "none", driver |-> None, distance |-> None]
  ELSE LET cell == Head(queue).cell
           dist == Head(queue).distance
           hit == IF cell \in DOMAIN idx
                    THEN ScanBucket(idx[cell], drv, rejected)
                    ELSE [kind |-> "none", driver |-> None]
       IN  IF hit.kind = "found"
             THEN [kind |-> "found", driver |-> hit.driver, distance |-> dist]
           ELSE IF hit.kind = "KeyError"
             THEN [kind |-> "KeyError", driver |-> None, distance |-> None]
           ELSE LET e == Explore(cell, Dirs, visited, <<>>)
                IN  FindLoop(Tail(queue) \o
                               [i \in 1..Len(e.queued) |->
                                  [cell |-> e.queued[i], distance |-> dist + 1]],
                             e.visited, idx, drv, rejected)

find_next_available_driver(pickup_location, drivers_rejected, idx, drv) ==
  FindLoop(<<[cell |-> pickup_location, distance |-> 0]>>, {pickup_location},
           idx, drv, drivers_rejected)

\* The scan of one bucket in add_ride: closest_driver becomes the first
\* available driver of the bucket (break), otherwise it keeps its value.
RECURSIVE RideScanBucket(_, _, _)
RideScanBucket(bucket, drv, closest) ==
  IF bucket = <<>> THEN [kind |-> "ok", closest |-> closest]
  ELSE IF Head(bucket) \notin DOMAIN drv
         THEN [kind |-> "KeyError", closest |-> closest]
  ELSE IF drv[Head(bucket)].status = "available"
         THEN [kind |-> "ok", closest |-> Head(bucket)]
  ELSE RideScanBucket(Tail(bucket), drv, closest)

\* The inline breadth-first loop of add_ride; it stops as soon as
\* closest_driver is truthy after a bucket has been scanned.
RECURSIVE RideLoop(_, _, _, _, _)
RideLoop(queue, visited, idx, drv, closest) ==
  IF queue = <<>> THEN [kind |-> "ok", closest |-> closest]
  ELSE LET cell == Head(queue)
           hit == IF cell \in DOMAIN idx
                    THEN RideScanBucket(idx[cell], drv, closest)
                    ELSE [kind |-> "ok", closest |-> closest]
       IN  IF hit.kind = "KeyError" THEN hit
           ELSE IF cell \in DOMAIN idx /\ Truthy(hit.closest) THEN hit
           ELSE LET e == Explore(cell, Dirs, visited, <<>>)
                IN  RideLoop(Tail(queue) \o e.queued, e.visited, idx, drv,
                             hit.closest)

add_ride_search(pickup_location, idx, drv) ==
  RideLoop(<<pickup_location>>, {pickup_location}, idx, drv, None)

\* ---------------------------------------------------------------- ride_requests
\* ride_requests is a dict keyed by rider id; tick iterates it in insertion
\* order, so it is kept as the sequence of its values in that order.
HasRide(reqs, r) == \E i \in 1..Len(reqs) : reqs[i].rider_id = r
RideIdx(reqs, r) == CHOOSE i \in 1..Len(reqs) : reqs[i].rider_id = r
RideOf(reqs, r) == reqs[RideIdx(reqs, r)]

\* ride_requests[r] = value: an existing key keeps its position.
RideSet(reqs, r, value) ==
  IF HasRide(reqs, r) THEN [reqs EXCEPT ![RideIdx(reqs, r)] = value]
  ELSE Append(reqs, value)

\* del ride_requests[r]
RideDel(reqs, r) ==
  LET k == RideIdx(reqs, r)
  IN  [i \in 1..(Len(reqs) - 1) |-> IF i < k THEN reqs[i] ELSE reqs[i + 1]]

NewRideRequest(r, pickup, dropoff) ==
  [rider_id |-> r, pickup_location |-> pickup, dropoff_location |-> dropoff,
   status |-> "waiting", drivers_rejected |-> {}, assigned_driver |-> None,
   current_phase |-> "to_pickup"]

\* ---------------------------------------------------------------- add_ride
\* add_ride without did_driver_accept / driver_id: a new ride request.
add_ride(s, r, dropoff_x, dropoff_y) ==
  IF ~InBounds(dropoff_x, dropoff_y) THEN Outcome(s, HttpError("bad_dropoff"))
  ELSE IF r \notin DOMAIN s.riders THEN Outcome(s, HttpError("rider_not_found"))
  ELSE LET pickup == s.riders[r].pickup_location
           found == add_ride_search(pickup, s.driver_locations, s.drivers)
       IN  IF found.kind = "KeyError" THEN Outcome(s, HttpError("KeyError"))
           ELSE IF ~Truthy(found.closest)
             THEN Outcome(s, ErrorReturn("no_driver"))
           ELSE Outcome(
                  [s EXCEPT
                     !.ride_requests =
                       RideSet(s.ride_requests, r,
                               NewRideRequest(r, pickup,
                                              <<dropoff_x, dropoff_y>>))],
                  Offer(found.closest))

\* ---------------------------------------------------------------- handle_driver_response
\* add_ride with did_driver_accept and driver_id both given.
handle_driver_response(s, r, d, did_driver_accept) ==
  IF ~HasRide(s.ride_requests, r) THEN Outcome(s, ErrorReturn("ride_not_found"))
  ELSE IF d \notin DOMAIN s.drivers
    THEN Outcome(s, ErrorReturn("driver_not_found"))
  ELSE IF did_driver_accept
    THEN Outcome(
           [s EXCEPT
              !.drivers = [s.drivers EXCEPT ![d].status = "on_trip"],
              !.ride_requests =
                RideSet(s.ride_requests, r,
                        [RideOf(s.ride_requests, r) EXCEPT
                           !.status = "assigned", !.assigned_driver = d])],
           Success)
  ELSE LET old == RideOf(s.ride_requests, r)
           ride == [old EXCEPT !.drivers_rejected = @ \cup {d}]
           recorded == [s EXCEPT !.ride_requests = RideSet(@, r, ride)]
           next == find_next_available_driver(ride.pickup_location,
                                              ride.drivers_rejected,
                                              s.driver_locations, s.drivers)
       IN  IF next.kind = "KeyError"
             THEN \* the rejection is already recorded when the search raises
                  Outcome(recorded, HttpError("KeyError"))
           ELSE IF next.kind = "found" /\ Truthy(next.driver)
             THEN Outcome(recorded, Offer(next.driver))
           ELSE Outcome([s EXCEPT !.ride_requests = RideDel(@, r)],
                        ErrorReturn("cancelled"))

\* ---------------------------------------------------------------- move_driver_towards_target
Min(a, b) == IF a < b THEN a ELSE b
Max(a, b) == IF a > b THEN a ELSE b

\* dx (dy): one unit towards the target on one axis, 0 when already level.
StepDir(current, target) ==
  IF current < target THEN 1 ELSE IF current > target THEN 0 - 1 ELSE 0

\* new_x = max(0, min(99, current_x + dx))
ClampStep(current, target) ==
  Max(0, Min(GridMax, current + StepDir(current, target)))

\* One call of move_driver_towards_target on the tables drv and idx: the
\* tables after it and the new cell, or the exception it raises (KeyError of
\* drivers[driver_id], ValueError of list.remove) with the tables untouched.
move_driver_towards_target(driver_id, target, drv, idx) ==
  IF driver_id \notin DOMAIN drv
    THEN [kind |-> "KeyError", drv |-> drv, idx |-> idx, new |-> target]
  ELSE LET old_location == drv[driver_id].location
           new_location == <<ClampStep(old_location[1], target[1]),
                             ClampStep(old_location[2], target[2])>>
       IN  IF old_location \in DOMAIN idx /\ ~InList(idx[old_location], driver_id)
             THEN [kind |-> "ValueError", drv |-> drv, idx |-> idx, new |-> target]
           ELSE LET removed == IF old_location \in DOMAIN idx
                                 THEN IndexRemove(idx, old_location, driver_id)
                                 ELSE idx
                IN  [kind |-> "ok",
                     drv |-> [drv EXCEPT ![driver_id].location = new_location],
                     idx |-> IndexAppend(removed, new_location, driver_id),
                     new |-> new_location]

\* ---------------------------------------------------------------- tick
\* The body of the for loop of tick for the ride at position i; w carries the
\* tables as the loop has left them so far, the list completed_rides and the
\* exception that ended the loop, if any.
TickRide(i, w) ==
  LET ride == w.reqs[i]
      d == ride.assigned_driver
  IN  IF ~(ride.status = "assigned" /\ Truthy(d)) THEN w
      ELSE IF ride.current_phase = "to_pickup"
        THEN LET m == move_driver_towards_target(d, ride.pickup_location,
                                                 w.drv, w.idx)
             IN  IF m.kind # "ok" THEN [w EXCEPT !.exc = m.kind]
                 ELSE [w EXCEPT !.drv = m.drv, !.idx = m.idx,
                                !.reqs[i].current_phase =
                                  IF m.new = ride.pickup_location
                                    THEN "to_dropoff" ELSE @]
      ELSE IF ride.current_phase = "to_dropoff"
        THEN LET m == move_driver_towards_target(d, ride.dropoff_location,
                                                 w.drv, w.idx)
             IN  IF m.kind # "ok" THEN [w EXCEPT !.exc = m.kind]
                 ELSE IF m.new # ride.dropoff_location
                   THEN [w EXCEPT !.drv = m.drv, !.idx = m.idx]
                 ELSE [w EXCEPT
                         !.drv = [m.drv EXCEPT ![d].status = "available"],
                         !.idx = m.idx,
                         !.reqs[i].current_phase = "completed",
                         !.reqs[i].status = "completed",
                         !.rid = IF ride.rider_id \in DOMAIN w.rid
                                   THEN [w.rid EXCEPT
                                           ![ride.rider_id] =
                                             [pickup_location |-> ride.dropoff_location,
                                              dropoff_location |-> ride.dropoff_location]]
                                   ELSE w.rid,
                         !.completed = Append(@, ride.rider_id)]
      ELSE w

RECURSIVE TickLoop(_, _)
TickLoop(i, w) ==
  IF i > Len(w.reqs) \/ w.exc # None THEN w
  ELSE TickLoop(i + 1, TickRide(i, w))

\* del ride_requests[rider_id] for every rider_id of completed_rides.
RECURSIVE RemoveCompleted(_, _)
RemoveCompleted(reqs, completed) ==
  IF completed = <<>> THEN reqs
  ELSE RemoveCompleted(RideDel(reqs, Head(completed)), Tail(completed))

tick(s) ==
  LET w == TickLoop(1, [drv |-> s.drivers, idx |-> s.driver_locations,
                        rid |-> s.riders, reqs |-> s.ride_requests,
                        completed |-> <<>>, exc |-> None])
      moved == [s EXCEPT !.current_tick = @ + 1, !.drivers = w.drv,
                         !.driver_locations = w.idx, !.riders = w.rid]
  IN  IF w.exc # None
        THEN \* the exception leaves the loop: completed rides stay
             Outcome([moved EXCEPT !.ride_requests = w.reqs], HttpError(w.exc))
        ELSE Outcome([moved EXCEPT
                        !.ride_requests = RemoveCompleted(w.reqs, w.completed)],
                     Success)

\* ---------------------------------------------------------------- calls
\* Cells of the grid, and the locations a caller sends: every cell, and
\* locations off each edge of the grid.
Cells == (0..GridMax) \X (0..GridMax)
OffGrid == { <<0 - 1, 0>>, <<GridMax + 1, 0>>, <<0, 0 - 1>>, <<0, GridMax + 1>> }
Points == Cells \cup OffGrid

\* One handler call: the storage and the response become its outcome.
Call(out) ==
  /\ drivers' = out.store.drivers
  /\ driver_locations' = out.store.driver_locations
  /\ riders' = out.store.riders
  /\ ride_requests' = out.store.ride_requests
  /\ current_tick' = out.store.current_tick
  /\ result' = out.result
  /\ calls' = calls + 1

\* One handler call at a time, MaxCalls calls from the empty store.
RegisterDriver ==
  /\ calls < MaxCalls
  /\ \E id \in DriverIds, p \in Points : Call(add_driver(Store, id, p[1], p[2]))
RegisterRider ==
  /\ calls < MaxCalls
  /\ \E id \in RiderIds, p \in Points : Call(add_rider(Store, id, p[1], p[2]))
RemoveDriver ==
  calls < MaxCalls /\ \E id \in DriverIds : Call(delete_driver(Store, id))
RemoveRider ==
  calls < MaxCalls /\ \E id \in RiderIds : Call(delete_rider(Store, id))
RequestRide ==
  /\ calls < MaxCalls
  /\ \E r \in RiderIds, p \in Points : Call(add_ride(Store, r, p[1], p[2]))
RespondToOffer ==
  /\ calls < MaxCalls
  /\ \E r \in RiderIds, d \in DriverIds, a \in BOOLEAN :
       Call(handle_driver_response(Store, r, d, a))
Advance == calls < MaxCalls /\ Call(tick(Store))

Next ==
  \/ RegisterDriver
  \/ RegisterRider
  \/ RemoveDriver
  \/ RemoveRider
  \/ RequestRide
  \/ RespondToOffer
  \/ Advance

Spec == Init /\ [][Next]_vars

\* The same handlers called with locations from two opposite corners of the
\* grid only, for runs of DeepCalls calls.
DeepPoints == { <<0, 0>>, <<GridMax, GridMax>> }
DeepRegisterDriver ==
  /\ calls < DeepCalls
  /\ \E id \in DriverIds, p \in DeepPoints : Call(add_driver(Store, id, p[1], p[2]))
DeepRegisterRider ==
  /\ calls < DeepCalls
  /\ \E id \in RiderIds, p \in DeepPoints : Call(add_rider(Store, id, p[1], p[2]))
DeepRemoveDriver ==
  calls < DeepCalls /\ \E id \in DriverIds : Call(delete_driver(Store, id))
DeepRemoveRider ==
  calls < DeepCalls /\ \E id \in RiderIds : Call(delete_rider(Store, id))
DeepRequestRide ==
  /\ calls < DeepCalls
  /\ \E r \in RiderIds, p \in DeepPoints : Call(add_ride(Store, r, p[1], p[2]))
DeepRespondToOffer ==
  /\ calls < DeepCalls
  /\ \E r \in RiderIds, d \in DriverIds, a \in BOOLEAN :
       Call(handle_driver_response(Store, r, d, a))
DeepAdvance == calls < DeepCalls /\ Call(tick(Store))

NextDeep ==
  \/ DeepRegisterDriver
  \/ DeepRegisterRider
  \/ DeepRemoveDriver
  \/ DeepRemoveRider
  \/ DeepRequestRide
  \/ DeepRespondToOffer
  \/ DeepAdvance

SpecDeep == Init /\ [][NextDeep]_vars

\* The same handlers with a third driver whose id is the empty string (id is
\* any str), called with locations from two opposite corners, for runs of
\* AnyIdCalls calls.
AnyDriverIds == DriverIds \cup {""}
AnyIdRegisterDriver ==
  /\ calls < AnyIdCalls
  /\ \E id \in AnyDriverIds, p \in DeepPoints :
       Call(add_driver(Store, id, p[1], p[2]))
AnyIdRegisterRider ==
  /\ calls < AnyIdCalls
  /\ \E id \in RiderIds, p \in DeepPoints : Call(add_rider(Store, id, p[1], p[2]))
AnyIdRemoveDriver ==
  calls < AnyIdCalls /\ \E id \in AnyDriverIds : Call(delete_driver(Store, id))
AnyIdRemoveRider ==
  calls < AnyIdCalls /\ \E id \in RiderIds : Call(delete_rider(Store, id))
AnyIdRequestRide ==
  /\ calls < AnyIdCalls
  /\ \E r \in RiderIds, p \in DeepPoints : Call(add_ride(Store, r, p[1], p[2]))
AnyIdRespondToOffer ==
  /\ calls < AnyIdCalls
  /\ \E r \in RiderIds, d \in AnyDriverIds, a \in BOOLEAN :
       Call(handle_driver_response(Store, r, d, a))
AnyIdAdvance == calls < AnyIdCalls /\ Call(tick(Store))

NextAnyId ==
  \/ AnyIdRegisterDriver
  \/ AnyIdRegisterRider
  \/ AnyIdRemoveDriver
  \/ AnyIdRemoveRider
  \/ AnyIdRequestRide
  \/ AnyIdRespondToOffer
  \/ AnyIdAdvance

SpecAnyId == Init /\ [][NextAnyId]_vars

\* A client that registers an id only when it is not registered, and sends
\* one location only, for runs of TripCalls calls: long enough for two rides
\* to be requested, accepted and driven.
TripPoint == <<0, 0>>
TripRegisterDriver ==
  /\ calls < TripCalls
  /\ \E id \in DriverIds \ DOMAIN drivers :
       Call(add_driver(Store, id, TripPoint[1], TripPoint[2]))
TripRegisterRider ==
  /\ calls < TripCalls
  /\ \E id \in RiderIds \ DOMAIN riders :
       Call(add_rider(Store, id, TripPoint[1], TripPoint[2]))
TripRemoveDriver ==
  calls < TripCalls /\ \E id \in DriverIds : Call(delete_driver(Store, id))
TripRemoveRider ==
  calls < TripCalls /\ \E id \in RiderIds : Call(delete_rider(Store, id))
TripRequestRide ==
  /\ calls < TripCalls
  /\ \E r \in RiderIds : Call(add_ride(Store, r, TripPoint[1], TripPoint[2]))
TripRespondToOffer ==
  /\ calls < TripCalls
  /\ \E r \in RiderIds, d \in DriverIds, a \in BOOLEAN :
       Call(handle_driver_response(Store, r, d, a))
TripAdvance == calls < TripCalls /\ Call(tick(Store))

NextTrip ==
  \/ TripRegisterDriver
  \/ TripRegisterRider
  \/ TripRemoveDriver
  \/ TripRemoveRider
  \/ TripRequestRide
  \/ TripRespondToOffer
  \/ TripAdvance

SpecTrip == Init /\ [][NextTrip]_vars

\* ---------------------------------------------------------------- properties
\* Positions <<cell, i>> of the spatial index that hold driver id.
IndexEntries(idx, id) ==
  { e \in UNION { {c} \X (1..Len(idx[c])) : c \in DOMAIN idx } :
      idx[e[1]][e[2]] = id }

\* Indices of the active ride requests whose assigned_driver is d.
AssignedTo(reqs, d) == { i \in 1..Len(reqs) : reqs[i].assigned_driver = d }

Abs(n) == IF n < 0 THEN 0 - n ELSE n
Manhattan(a, b) == Abs(a[1] - b[1]) + Abs(a[2] - b[2])
Chebyshev(a, b) == Max(Abs(a[1] - b[1]), Abs(a[2] - b[2]))

\* Every call a client can make on store s, with its outcome.
CallsOn(s) ==
  { [op |-> "add_driver", rider |-> None, driver |-> id,
     out |-> add_driver(s, id, p[1], p[2])] : id \in DriverIds, p \in Points }
  \cup
  { [op |-> "add_rider", rider |-> id, driver |-> None,
     out |-> add_rider(s, id, p[1], p[2])] : id \in RiderIds, p \in Points }
  \cup
  { [op |-> "delete_driver", rider |-> None, driver |-> id,
     out |-> delete_driver(s, id)] : id \in DriverIds }
  \cup
  { [op |-> "delete_rider", rider |-> id, driver |-> None,
     out |-> delete_rider(s, id)] : id \in RiderIds }
  \cup
  { [op |-> "add_ride", rider |-> r, driver |-> None,
     out |-> add_ride(s, r, p[1], p[2])] : r \in RiderIds, p \in Points }
  \cup
  { [op |-> "driver_response", rider |-> c[1], driver |-> c[2],
     out |-> handle_driver_response(s, c[1], c[2], c[3])] :
       c \in RiderIds \X DriverIds \X BOOLEAN }
  \cup
  { [op |-> "tick", rider |-> None, driver |-> None, out |-> tick(s)] }

\* C1: every existing driver's id is in the spatial index exactly once, and
\* the one cell that holds it is the driver's recorded location.
C1_IndexedExactlyOnceAtLocation ==
  \A d \in DOMAIN drivers :
    /\ Cardinality(IndexEntries(driver_locations, d)) = 1
    /\ \A e \in IndexEntries(driver_locations, d) : e[1] = drivers[d].location

\* C2: a driver is on_trip if and only if it is the assigned_driver of
\* exactly one active ride request.
C2_OnTripIffAssignedOnce ==
  \A d \in DOMAIN drivers :
    (drivers[d].status = "on_trip")
      <=> (Cardinality(AssignedTo(ride_requests, d)) = 1)

\* C3: after a successful accepting response of driver d for rider r, d is
\* on_trip and no ride request other than r's has d as assigned_driver.
C3_AcceptAssignsExactlyOne ==
  \A r \in RiderIds, d \in DriverIds :
    LET out == handle_driver_response(Store, r, d, TRUE)
    IN  out.result.status = "success"
          => /\ out.store.drivers[d].status = "on_trip"
             /\ \A i \in AssignedTo(out.store.ride_requests, d) :
                  out.store.ride_requests[i].rider_id = r

\* C4: the assigned_driver of an active ride request is never a member of
\* that request's drivers_rejected.
C4_AssignedNotRejected ==
  \A i \in 1..Len(ride_requests) :
    ride_requests[i].assigned_driver # None
      => ride_requests[i].assigned_driver \notin ride_requests[i].drivers_rejected

\* Drivers a search may return: available and not excluded.
Eligible(drv, excluded) ==
  { d \in DOMAIN drv : drv[d].status = "available" /\ d \notin excluded }

\* The least Manhattan distance from origin to the recorded location of an
\* eligible driver.
MinDistance(origin, drv, excluded) ==
  CHOOSE n \in 0..(2 * GridMax) :
    /\ \E d \in Eligible(drv, excluded) : Manhattan(origin, drv[d].location) = n
    /\ \A d \in Eligible(drv, excluded) : Manhattan(origin, drv[d].location) >= n

\* C5: for every origin and exclusion set the search of
\* find_next_available_driver, and with no exclusion the search inside
\* add_ride, returns an eligible driver whose recorded location is at the
\* least Manhattan distance from the origin, and returns none exactly when
\* no driver is eligible.
C5_SearchReturnsNearest ==
  \A origin \in Cells, excluded \in SUBSET DriverIds :
    LET found == find_next_available_driver(origin, excluded,
                                            driver_locations, drivers)
        inline == add_ride_search(origin, driver_locations, drivers)
    IN  /\ IF Eligible(drivers, excluded) = {}
             THEN found.kind = "none"
             ELSE /\ found.kind = "found"
                  /\ found.driver \in Eligible(drivers, excluded)
                  /\ Manhattan(origin, drivers[found.driver].location)
                       = MinDistance(origin, drivers, excluded)
        /\ IF Eligible(drivers, {}) = {}
             THEN inline.kind = "ok" /\ inline.closest = None
             ELSE /\ inline.kind = "ok"
                  /\ inline.closest \in Eligible(drivers, {})
                  /\ Manhattan(origin, drivers[inline.closest].location)
                       = MinDistance(origin, drivers, {})

\* Call c replaces rider r's ride request by a new one.
Rerequests(c, r) ==
  c.op = "add_ride" /\ c.rider = r /\ c.out.result.status = "success"

\* C6: a rejecting response of driver d on rider r's request that returns an
\* offer has recorded d as rejected and offers a driver outside the rejected
\* set; and whatever is called, a ride request that stays in the active set
\* (it is not replaced by a new request of its rider) keeps every driver it
\* has in drivers_rejected.
C6_RejectedNeverReoffered ==
  \A c \in CallsOn(Store) :
    /\ (c.op = "driver_response" /\ c.out.result.driver_selected # None)
         => /\ HasRide(c.out.store.ride_requests, c.rider)
            /\ LET rejected == RideOf(c.out.store.ride_requests,
                                      c.rider).drivers_rejected
               IN  /\ c.driver \in rejected
                   /\ c.out.result.driver_selected \notin rejected
    /\ \A r \in RiderIds :
         (/\ HasRide(ride_requests, r)
          /\ HasRide(c.out.store.ride_requests, r)
          /\ ~Rerequests(c, r))
           => RideOf(ride_requests, r).drivers_rejected
                \subseteq RideOf(c.out.store.ride_requests, r).drivers_rejected

\* A rejection has produced a second offer: the one active request has a
\* rejected driver and the response names a driver that has not rejected it.
C6_Witness ==
  /\ Len(ride_requests) = 1
  /\ ride_requests[1].drivers_rejected # {}
  /\ result.status = "success"
  /\ result.driver_selected \in DOMAIN drivers
  /\ result.driver_selected \notin ride_requests[1].drivers_rejected

\* The store after n further calls of tick.
RECURSIVE AfterTicks(_, _)
AfterTicks(n, s) == IF n = 0 THEN s ELSE AfterTicks(n - 1, tick(s).store)

\* Rider r's ride is completed in store s: tick has marked it completed, and
\* retired it unless the pass raised.
RideCompleted(s, r) ==
  \/ ~HasRide(s.ride_requests, r)
  \/ RideOf(s.ride_requests, r).status = "completed"

\* C7: a ride accepted with its driver at s, pickup p and dropoff q is
\* completed after exactly Chebyshev(s,p) + Chebyshev(p,q) calls of tick and
\* not before, when only tick is called after the acceptance.
C7_CompletesAfterChebyshevTicks ==
  \A r \in RiderIds, d \in DriverIds :
    LET out == handle_driver_response(Store, r, d, TRUE)
    IN  (/\ out.result.status = "success"
         /\ RideOf(ride_requests, r).status = "waiting")
          => LET ride == RideOf(out.store.ride_requests, r)
                 n == Chebyshev(out.store.drivers[d].location,
                                ride.pickup_location)
                        + Chebyshev(ride.pickup_location, ride.dropoff_location)
             IN  /\ RideCompleted(AfterTicks(n, out.store), r)
                 /\ \A k \in 0..(n - 1) :
                      ~RideCompleted(AfterTicks(k, out.store), r)

\* A call ended in a failure: it raised, or it returned an error other than
\* the cancellation of a ride whose candidates are exhausted.
Failed(res) ==
  \/ res.status = "http_error"
  \/ res.status = "error" /\ res.detail # "cancelled"

\* C8: a call that ends in a failure leaves drivers, riders, the spatial
\* index, the ride requests and the tick counter as they were before it.
C8_FailureLeavesStore ==
  \A c \in CallsOn(Store) : Failed(c.out.result) => c.out.store = Store

\* C9: add_driver, add_rider and add_ride (a ride request) called with an x
\* or y outside the grid raise, and leave the whole store unchanged.
C9_OffGridAlwaysFails ==
  \A p \in OffGrid :
    /\ \A id \in DriverIds :
         LET out == add_driver(Store, id, p[1], p[2])
         IN  out.result.status = "http_error" /\ out.store = Store
    /\ \A id \in RiderIds :
         LET out == add_rider(Store, id, p[1], p[2])
         IN  out.result.status = "http_error" /\ out.store = Store
    /\ \A id \in RiderIds :
         LET out == add_ride(Store, id, p[1], p[2])
         IN  out.result.status = "http_error" /\ out.store = Store

\* An off-grid call has just been refused on a store that holds a driver, a
\* rider and a ride request.
C9_Witness ==
  /\ result.detail \in {"bad_coordinates", "bad_dropoff"}
  /\ drivers # <<>> /\ riders # <<>> /\ ride_requests # <<>>

\* C10: after a successful delete_driver(id) the driver table has no id and
\* no bucket of the spatial index holds id, so that every id of the index
\* is the id of an existing driver.
C10_RemovedDriverLeavesIndex ==
  \A id \in DriverIds :
    LET out == delete_driver(Store, id)
    IN  out.result.status = "success"
          => /\ id \notin DOMAIN out.store.drivers
             /\ IndexEntries(out.store.driver_locations, id) = {}

\* C11: a ride request (add_ride without a driver response) leaves the driver
\* table, every status included, as it was; and when exactly one driver D is
\* available and two registered riders request rides one after the other, the
\* first request still waiting, both calls offer D.
C11_OffersDoNotReserve ==
  \A r \in RiderIds, p \in Points :
    LET out == add_ride(Store, r, p[1], p[2])
    IN  /\ out.store.drivers = drivers
        /\ \A D \in DriverIds, r2 \in RiderIds \ {r}, q \in Cells :
             (/\ Eligible(drivers, {}) = {D}
              /\ p \in Cells
              /\ {r, r2} \subseteq DOMAIN riders)
               => /\ out.result.driver_selected = D
                  /\ add_ride(out.store, r2, q[1], q[2]).result.driver_selected = D

\* Positions of bucket whose id is a driver a search may return.
EligibleAt(bucket, drv, excluded) ==
  { i \in 1..Len(bucket) : bucket[i] \in Eligible(drv, excluded) }

\* Cells of the index that hold an eligible driver, and those of them at the
\* least Manhattan distance from origin.
EligibleCells(idx, drv, excluded) ==
  { c \in DOMAIN idx : EligibleAt(idx[c], drv, excluded) # {} }
NearestCells(origin, idx, drv, excluded) ==
  { c \in EligibleCells(idx, drv, excluded) :
      \A c2 \in EligibleCells(idx, drv, excluded) :
        Manhattan(origin, c) <= Manhattan(origin, c2) }

\* The eligible driver that entered bucket first: buckets grow by append only.
FirstInserted(bucket, drv, excluded) ==
  bucket[CHOOSE i \in EligibleAt(bucket, drv, excluded) :
           \A j \in EligibleAt(bucket, drv, excluded) : i <= j]

\* C12: when a cell at the least distance from the origin holds several
\* available, non-excluded drivers, find_next_available_driver returns the
\* one that was inserted first into the bucket of a cell at that distance.
C12_TieBreakByInsertionOrder ==
  \A origin \in Cells, excluded \in SUBSET AnyDriverIds :
    LET near == NearestCells(origin, driver_locations, drivers, excluded)
        found == find_next_available_driver(origin, excluded,
                                            driver_locations, drivers)
    IN  (\E c \in near :
           Cardinality({ driver_locations[c][i] :
                           i \in EligibleAt(driver_locations[c], drivers,
                                            excluded) }) >= 2)
          => /\ found.kind = "found"
             /\ \E c \in near :
                  found.driver = FirstInserted(driver_locations[c], drivers,
                                               excluded)

\* C13: every driver location, every rider location and the pickup and the
\* dropoff location of every ride request have both coordinates on the grid,
\* and so has every cell of the spatial index.
C13_CoordinatesOnGrid ==
  /\ \A d \in DOMAIN drivers : drivers[d].location \in Cells
  /\ \A r \in DOMAIN riders :
       riders[r].pickup_location \in Cells /\ riders[r].dropoff_location \in Cells
  /\ \A i \in 1..Len(ride_requests) :
       /\ ride_requests[i].pickup_location \in Cells
       /\ ride_requests[i].dropoff_location \in Cells
  /\ DOMAIN driver_locations \subseteq Cells

\* A tick has taken an assigned driver to its pickup and the driver stands
\* on a corner of the grid, where a further step outwards would leave it.
C13_Witness ==
  /\ current_tick >= 1
  /\ \E i \in 1..Len(ride_requests) :
       /\ ride_requests[i].status = "assigned"
       /\ ride_requests[i].current_phase = "to_dropoff"
       /\ ride_requests[i].assigned_driver \in DOMAIN drivers
       /\ drivers[ride_requests[i].assigned_driver].location
            \in { <<0, 0>>, <<GridMax, GridMax>> }

\* C14: whatever is called on a store where rider r's ride request is
\* assigned, the request is afterwards still there as assigned or completed
\* (never waiting again), or it has left the active set in a call of tick.
C14_RequestOnlyMovesForward ==
  \A c \in CallsOn(Store), r \in RiderIds :
    (HasRide(ride_requests, r) /\ RideOf(ride_requests, r).status = "assigned")
      => IF HasRide(c.out.store.ride_requests, r)
           THEN RideOf(c.out.store.ride_requests, r).status
                  \in {"assigned", "completed"}
           ELSE c.op = "tick"

\* C15: after a successful accepting response of driver d for rider r, r's
\* ride request is assigned, in phase to_pickup and records d as
\* assigned_driver, and d is on_trip.
C15_AcceptSetsAssignedToPickup ==
  \A r \in RiderIds, d \in DriverIds :
    LET out == handle_driver_response(Store, r, d, TRUE)
    IN  out.result.status = "success"
          => /\ HasRide(out.store.ride_requests, r)
             /\ RideOf(out.store.ride_requests, r).status = "assigned"
             /\ RideOf(out.store.ride_requests, r).current_phase = "to_pickup"
             /\ RideOf(out.store.ride_requests, r).assigned_driver = d
             /\ out.store.drivers[d].status = "on_trip"

\* C16: a rejecting response of an existing driver d on rider r's ride
\* request leaves d's status as it was; when an available driver outside the
\* rejected set (d now in it) exists, the request stays active with its
\* status unchanged and the response offers such a driver at the least
\* distance from the pickup; when none exists, the request is removed and the
\* response reports the cancellation.
C16_RejectOffersNextOrCancels ==
  \A r \in RiderIds, d \in AnyDriverIds :
    (HasRide(ride_requests, r) /\ d \in DOMAIN drivers)
      => LET out == handle_driver_response(Store, r, d, FALSE)
             old == RideOf(ride_requests, r)
             excluded == old.drivers_rejected \cup {d}
             offered == out.result.driver_selected
         IN  /\ out.store.drivers[d].status = drivers[d].status
             /\ IF Eligible(drivers, excluded) # {}
                  THEN /\ HasRide(out.store.ride_requests, r)
                       /\ RideOf(out.store.ride_requests, r).status = old.status
                       /\ out.result.status = "success"
                       /\ offered \in Eligible(drivers, excluded)
                       /\ Manhattan(old.pickup_location, drivers[offered].location)
                            = MinDistance(old.pickup_location, drivers, excluded)
                  ELSE /\ ~HasRide(out.store.ride_requests, r)
                       /\ out.result.detail = "cancelled"

\* Rider r's ride request is in phase to_dropoff in the ride requests reqs.
InDropoffPhase(reqs, r) ==
  HasRide(reqs, r) /\ RideOf(reqs, r).current_phase = "to_dropoff"

\* C17: a ride request enters phase to_dropoff only in a call of tick that
\* leaves its assigned driver exactly on the pickup cell; and an acceptance
\* never leaves its request in to_dropoff, so that a ride in to_dropoff has
\* had its driver on the pickup cell at the end of a tick since it was
\* accepted.
C17_DropoffPhaseOnlyAfterPickup ==
  /\ \A c \in CallsOn(Store), r \in RiderIds :
       (InDropoffPhase(c.out.store.ride_requests, r)
          /\ ~InDropoffPhase(ride_requests, r))
         => LET ride == RideOf(c.out.store.ride_requests, r)
            IN  /\ c.op = "tick"
                /\ ride.assigned_driver \in DOMAIN c.out.store.drivers
                /\ c.out.store.drivers[ride.assigned_driver].location
                     = ride.pickup_location
  /\ \A r \in RiderIds, d \in DriverIds :
       LET out == handle_driver_response(Store, r, d, TRUE)
       IN  out.result.status = "success"
             => ~InDropoffPhase(out.store.ride_requests, r)

\* The tables of a call of tick on store s once the first k ride requests
\* have been processed (or the pass has raised).
RECURSIVE PassUpTo(_, _)
PassUpTo(k, s) ==
  IF k = 0
    THEN [drv |-> s.drivers, idx |-> s.driver_locations, rid |-> s.riders,
          reqs |-> s.ride_requests, completed |-> <<>>, exc |-> None]
    ELSE LET w == PassUpTo(k - 1, s)
         IN  IF w.exc # None THEN w ELSE TickRide(k, w)

\* The call of tick on the current store moves the driver of the i-th ride
\* request, assigned and in phase to_dropoff, onto the dropoff cell.
LandsOnDropoff(i) ==
  LET before == PassUpTo(i - 1, Store)
      after == PassUpTo(i, Store)
      ride == before.reqs[i]
  IN  /\ before.exc = None /\ after.exc = None
      /\ ride.status = "assigned" /\ ride.current_phase = "to_dropoff"
      /\ ride.assigned_driver \in DOMAIN after.drv
      /\ after.drv[ride.assigned_driver].location = ride.dropoff_location

\* The i-th ride request is assigned, on its way, and the only ride of its
\* driver.
OnlyRideOfDriver(i) ==
  /\ ride_requests[i].status = "assigned"
  /\ ride_requests[i].current_phase \in {"to_pickup", "to_dropoff"}
  /\ ride_requests[i].assigned_driver \in DOMAIN drivers
  /\ AssignedTo(ride_requests, ride_requests[i].assigned_driver) = {i}

\* C18: when a call of tick moves the driver of an assigned ride in phase
\* to_dropoff onto the dropoff cell, then after the call the driver is
\* available, the rider's recorded location is the dropoff cell and the ride
\* request has left the active set; and every other assigned ride has
\* been processed in the same call: its driver has made its one step.
C18_CompletionEffects ==
  \A i \in 1..Len(ride_requests) :
    LandsOnDropoff(i)
      => LET out == tick(Store)
             ride == ride_requests[i]
             r == ride.rider_id
         IN  /\ out.store.drivers[ride.assigned_driver].status = "available"
             /\ r \in DOMAIN riders
                  => out.store.riders[r].pickup_location = ride.dropoff_location
             /\ ~HasRide(out.store.ride_requests, r)
             /\ \A j \in 1..Len(ride_requests) :
                  OnlyRideOfDriver(j)
                    => LET dj == ride_requests[j].assigned_driver
                           target == IF ride_requests[j].current_phase = "to_pickup"
                                       THEN ride_requests[j].pickup_location
                                       ELSE ride_requests[j].dropoff_location
                       IN  /\ dj \in DOMAIN out.store.drivers
                           /\ out.store.drivers[dj].location
                                = <<ClampStep(drivers[dj].location[1], target[1]),
                                    ClampStep(drivers[dj].location[2], target[2])>>

\* C19: on the driver table and the spatial index of every reachable store
\* and from every pickup cell, the search inside add_ride selects a driver
\* exactly when find_next_available_driver with no rejected driver returns
\* one, and the two drivers are the same.
C19_InlineSearchEquivalent ==
  \A pickup \in Cells :
    LET inline == add_ride_search(pickup, driver_locations, drivers)
        found == find_next_available_driver(pickup, {}, driver_locations,
                                            drivers)
        selects == inline.kind = "ok" /\ Truthy(inline.closest)
    IN  /\ selects <=> found.kind = "found"
        /\ selects => inline.closest = found.driver

\* Rider r's ride request, offered to driver d on store s, is cancelled and
\* removed within n calls when every offer is answered with the rejection of
\* the offered driver and nothing else is called.
RECURSIVE CancelledWithin(_, _, _, _)
CancelledWithin(n, s, r, d) ==
  IF n = 0 THEN FALSE
  ELSE LET out == handle_driver_response(s, r, d, FALSE)
       IN  IF out.result.detail = "cancelled"
             THEN ~HasRide(out.store.ride_requests, r)
           ELSE IF out.result.status = "success"
             THEN CancelledWithin(n - 1, out.store, r, out.result.driver_selected)
           ELSE FALSE

\* C20: a ride request that add_ride has just created and offered, in a
\* store with N drivers, is cancelled and removed after at most N rejecting
\* responses, each by the driver of the standing offer.
C20_RejectionCyclingTerminates ==
  \A r \in RiderIds, q \in Cells :
    LET out == add_ride(Store, r, q[1], q[2])
    IN  (out.result.status = "success")
          => CancelledWithin(Cardinality(DOMAIN drivers), out.store, r,
                             out.result.driver_selected)
====
